---- MODULE Spec2Model ----
(***************************************************************************)
(* Model of the three programs of the repository that have behaviour of    *)
(* their own: infra/flink/download-jars.sh (specifications Spec and        *)
(* SpecForever), the start script of the flink-dev container               *)
(* (SpecStart) and the entrypoint of the mc service of docker-compose.yml  *)
(* (SpecMc).  Each specification runs one program and leaves the state of  *)
(* the other two as it is before they are started.                         *)
(*                                                                         *)
(* download-jars.sh provisions the six Flink/Iceberg JAR files into a      *)
(* destination directory.                                                  *)
(* The state is the command line of the running invocation, the position   *)
(* of the shell in the script, the shell variables, the part of the file   *)
(* system the script touches (the destination directory and the six        *)
(* manifest paths in it), and what each invocation reported.  Invocations  *)
(* follow each other on the same file system.                              *)
(***************************************************************************)
EXTENDS Integers, Sequences, FiniteSets, TLC

\* ---------------------------------------------------------------- bounds
\* Number of consecutive invocations of the script that are explored.
MaxRuns == 2

\* Largest number of manifest paths already occupied before the first
\* invocation.
MaxPre == 2

\* Number of paths for *.jar files in the destination directory that are
\* not in the manifest (PyFlink's own JARs, for example).
MaxOther == 1

\* Starts of the flink-dev container, and signals sent to its main
\* process.
MaxBoots == 2

MaxSignals == 2

\* Starts of the mc container, objects written to the bucket, and failed
\* attempts of "mc alias set" that are counted.
MaxMcStarts == 2

MaxObjects == 2

MaxWaits == 2

\* ------------------------------------------------------ program constants
\* TOTAL_JARS=6 (line 94): the six download_jar calls of lines 100-128.
TOTAL_JARS == 6

\* No exit status yet: the invocation is still running (or none has run).
NoExit == -1

Entries == 1..TOTAL_JARS

\* What can be found at DEST_PATH/<filename>: nothing, a regular file that
\* holds only part of the artifact (possibly zero bytes), or a regular file
\* with the whole artifact.
FileStates == {"absent", "partial", "full"}

\* What can be found at DEST_PATH itself.
DestStates == {"absent", "file", "dir"}

\* What the script has printed about an entry in the current invocation:
\* nothing yet (Unknown), line 76 (AlreadyPresent), line 80 only
\* (Downloading), line 84 (Downloaded), line 87 (Failed).
Outcomes == {"Unknown", "AlreadyPresent", "Downloading", "Downloaded", "Failed"}

\* Paths of *.jar regular files under DEST_PATH other than the six manifest
\* paths.
OtherPaths == 1..MaxOther

\* What can be found at DEST_PATH's parent directory.
ParentStates == {"absent", "dir"}

\* The lines the script prints, by the echo (or command) that prints them.
\* The progress lines of download_jar carry the manifest entry they name
\* (its filename) and the counter [cur/total]; the summary line (137)
\* carries the count.
LineKinds ==
    { "usage", "arg_error", "no_dest", "creating", "created",
      "create_failed", "target", "starting", "skip", "downloading",
      "wget_output", "downloaded", "failed", "completed", "summary",
      "listing" }

\* The progress lines of download_jar (lines 76, 80, 84, 87).
ProgressKinds == {"skip", "downloading", "downloaded", "failed"}

Line(kind, entry, cur, total, count) ==
    [kind |-> kind, entry |-> entry, cur |-> cur, total |-> total,
     count |-> count]

\* A line that names no entry and carries no number.
Text(kind) == Line(kind, 0, 0, 0, 0)

\* Lines 43-46 of download-jars.sh.
ICEBERG_VERSION == "1.9.1"

HADOOP_VERSION == "3.3.4"

FLINK_VERSION == "1.20.0"

MAVEN_REPO == "https://repo1.maven.org/maven2"

\* A URL is the sequence of its "/"-separated parts, the repository base
\* first; a file name is a string.

ManifestFile_hadoop(k) ==
    CASE k = 1 -> "iceberg-flink-runtime-1.20-" \o ICEBERG_VERSION \o ".jar"
      [] k = 2 -> "flink-s3-fs-hadoop-" \o HADOOP_VERSION \o ".jar"
      [] k = 3 -> "hadoop-common-" \o HADOOP_VERSION \o ".jar"
      [] k = 4 -> "flink-shaded-hadoop-2-uber-2.8.3-10.0.jar"
      [] k = 5 -> "hadoop-hdfs-client-" \o HADOOP_VERSION \o ".jar"
      [] k = 6 -> "iceberg-aws-bundle-" \o ICEBERG_VERSION \o ".jar"

\* The second argument of the k-th download_jar call (lines 103, 108, 113,
\* 118, 123, 128).
ManifestFile(k) ==
    CASE k = 1 -> "iceberg-flink-runtime-1.20-" \o ICEBERG_VERSION \o ".jar"
      [] k = 2 -> "flink-s3-fs-hadoop-" \o FLINK_VERSION \o ".jar"
      [] k = 3 -> "hadoop-common-" \o HADOOP_VERSION \o ".jar"
      [] k = 4 -> "flink-shaded-hadoop-2-uber-2.8.3-10.0.jar"
      [] k = 5 -> "hadoop-hdfs-client-" \o HADOOP_VERSION \o ".jar"
      [] k = 6 -> "iceberg-aws-bundle-" \o ICEBERG_VERSION \o ".jar"

\* The first argument of the k-th download_jar call (lines 102, 107, 112,
\* 117, 122, 127).
ManifestUrl(k) ==
    CASE k = 1 -> << MAVEN_REPO, "org", "apache", "iceberg",
                     "iceberg-flink-runtime-1.20", ICEBERG_VERSION,
                     "iceberg-flink-runtime-1.20-" \o ICEBERG_VERSION
                        \o ".jar" >>
      [] k = 2 -> << MAVEN_REPO, "org", "apache", "flink",
                     "flink-s3-fs-hadoop", FLINK_VERSION,
                     "flink-s3-fs-hadoop-" \o FLINK_VERSION \o ".jar" >>
      [] k = 3 -> << MAVEN_REPO, "org", "apache", "hadoop",
                     "hadoop-common", HADOOP_VERSION,
                     "hadoop-common-" \o HADOOP_VERSION \o ".jar" >>
      [] k = 4 -> << MAVEN_REPO, "org", "apache", "flink",
                     "flink-shaded-hadoop-2-uber", "2.8.3-10.0",
                     "flink-shaded-hadoop-2-uber-2.8.3-10.0.jar" >>
      [] k = 5 -> << MAVEN_REPO, "org", "apache", "hadoop",
                     "hadoop-hdfs-client", HADOOP_VERSION,
                     "hadoop-hdfs-client-" \o HADOOP_VERSION \o ".jar" >>
      [] k = 6 -> << MAVEN_REPO, "org", "apache", "iceberg",
                     "iceberg-aws-bundle", ICEBERG_VERSION,
                     "iceberg-aws-bundle-" \o ICEBERG_VERSION \o ".jar" >>

\* wget "${url}" -O "${filepath}" (line 83) as started for entry k.
Request(k) == [entry |-> k, url |-> ManifestUrl(k), file |-> ManifestFile(k)]

\* Lines 35-39 of the Dockerfile.
DOCKER_ICEBERG_VERSION == "1.9.1"

DOCKER_HADOOP_VERSION == "3.3.4"

DOCKER_FLINK_VERSION == "1.20.0"

DOCKER_FLINK_SHADED_VERSION == "1.20.0-16.1"

DOCKER_MAVEN_REPO == "https://repo1.maven.org/maven2"

DockerFile_shaded(k) ==
    CASE k = 1 -> "iceberg-flink-runtime-1.20-" \o DOCKER_ICEBERG_VERSION
                     \o ".jar"
      [] k = 2 -> "flink-s3-fs-hadoop-" \o DOCKER_FLINK_VERSION \o ".jar"
      [] k = 3 -> "hadoop-common-" \o DOCKER_HADOOP_VERSION \o ".jar"
      [] k = 4 -> "flink-shaded-hadoop-2-uber-"
                     \o DOCKER_FLINK_SHADED_VERSION \o ".jar"
      [] k = 5 -> "hadoop-hdfs-client-" \o DOCKER_HADOOP_VERSION \o ".jar"
      [] k = 6 -> "iceberg-aws-bundle-" \o DOCKER_ICEBERG_VERSION \o ".jar"

\* The file name under /opt/flink/lib/ that the k-th RUN wget step of the
\* Dockerfile writes (-O, lines 43, 47, 51, 55, 59, 63).
DockerFile(k) ==
    CASE k = 1 -> "iceberg-flink-runtime-1.20-" \o DOCKER_ICEBERG_VERSION
                     \o ".jar"
      [] k = 2 -> "flink-s3-fs-hadoop-" \o DOCKER_FLINK_VERSION \o ".jar"
      [] k = 3 -> "hadoop-common-" \o DOCKER_HADOOP_VERSION \o ".jar"
      [] k = 4 -> "flink-shaded-hadoop-2-uber-2.8.3-10.0.jar"
      [] k = 5 -> "hadoop-hdfs-client-" \o DOCKER_HADOOP_VERSION \o ".jar"
      [] k = 6 -> "iceberg-aws-bundle-" \o DOCKER_ICEBERG_VERSION \o ".jar"

\* The URL the k-th RUN wget step of the Dockerfile fetches (lines 42, 46,
\* 50, 54, 58, 62).
DockerUrl(k) ==
    CASE k = 1 -> << DOCKER_MAVEN_REPO, "org", "apache", "iceberg",
                     "iceberg-flink-runtime-1.20", DOCKER_ICEBERG_VERSION,
                     "iceberg-flink-runtime-1.20-" \o DOCKER_ICEBERG_VERSION
                        \o ".jar" >>
      [] k = 2 -> << DOCKER_MAVEN_REPO, "org", "apache", "flink",
                     "flink-s3-fs-hadoop", DOCKER_FLINK_VERSION,
                     "flink-s3-fs-hadoop-" \o DOCKER_FLINK_VERSION
                        \o ".jar" >>
      [] k = 3 -> << DOCKER_MAVEN_REPO, "org", "apache", "hadoop",
                     "hadoop-common", DOCKER_HADOOP_VERSION,
                     "hadoop-common-" \o DOCKER_HADOOP_VERSION \o ".jar" >>
      [] k = 4 -> << DOCKER_MAVEN_REPO, "org", "apache", "flink",
                     "flink-shaded-hadoop-2-uber", "2.8.3-10.0",
                     "flink-shaded-hadoop-2-uber-2.8.3-10.0.jar" >>
      [] k = 5 -> << DOCKER_MAVEN_REPO, "org", "apache", "hadoop",
                     "hadoop-hdfs-client", DOCKER_HADOOP_VERSION,
                     "hadoop-hdfs-client-" \o DOCKER_HADOOP_VERSION
                        \o ".jar" >>
      [] k = 6 -> << DOCKER_MAVEN_REPO, "org", "apache", "iceberg",
                     "iceberg-aws-bundle", DOCKER_ICEBERG_VERSION,
                     "iceberg-aws-bundle-" \o DOCKER_ICEBERG_VERSION
                        \o ".jar" >>

\* Command lines the script is invoked with.  "dest" stands for a non-empty
\* destination path that is not a help flag.
Argvs ==
    { <<>>, <<"">>, <<"-h">>, <<"--help">>, <<"dest">>,
      <<"dest", "-h">>, <<"dest", "--help">>, <<"-h", "dest">>,
      <<"", "dest">> }

VARIABLES
    argv,           \* command line of the current invocation
    pc,             \* position of the shell in the script
    exitCode,       \* exit status of the last invocation, NoExit while running
    destKind,       \* what is at DEST_PATH
    parentKind,     \* what is at DEST_PATH's parent
    parentWritable, \* whether DEST_PATH's missing ancestors can be created
    fs,             \* fs[k]: what is at DEST_PATH/<filename of entry k>
    other,          \* other[p]: what is at the non-manifest *.jar path p
    call,           \* which of the six download_jar calls (lines 100-128)
                    \* is running or was the last to run; 0 before the first
    CURRENT_JAR,    \* the shell variable of that name
    JAR_COUNT,      \* the shell variable of that name (0 while unset)
    stdout,         \* lines this invocation wrote to standard output
    stderr,         \* lines this invocation wrote to standard error
    outcome,        \* outcome[k]: what this invocation printed about entry k
    fetched,        \* entries for which this invocation started wget
    nfetch,         \* nfetch[k]: wget processes this invocation started for k
    requests,       \* the (url, file) pairs this invocation gave to wget
    run,            \* number of invocations started so far
    fs0,            \* fs when the current invocation started
    destKind0,      \* destKind when the current invocation started
    prev,           \* outcome of the previous invocation
    \* ---- the start script of the flink-dev container
    spc,            \* position of the container's main process
    jm,             \* the JobManager background process
    tm,             \* the TaskManager background process
    trapSet,        \* whether the shell's trap for SIGTERM/SIGINT is set
    cleanupRan,     \* whether the cleanup handler has run since the start
    sout,           \* lines the start script printed since the start
    sexit,          \* exit status of the main process, NoExit while it runs
    sigs,           \* signals delivered to the main process so far
    boots,          \* starts of the container so far
    \* ---- the mc service and the MinIO server it talks to
    mcpc,           \* position of the mc entrypoint
    minioUp,        \* whether MinIO answers on minio:9000
    aliasSet,       \* whether "mc alias set" has succeeded since the start
    bucket,         \* whether bucket warehouse exists (in minio_data)
    policy,         \* anonymous access policy of the bucket
    objects,        \* objects in the bucket
    objs0,          \* objects in the bucket when mc was last started
    written,        \* objects ever written to the bucket
    cmds,           \* bucket commands mc has issued since its start
    waits,          \* failed "mc alias set" attempts since the start
    mcStarts        \* starts of the mc container so far

jarVars == << argv, pc, exitCode, destKind, parentKind, parentWritable, fs,
           other, call, CURRENT_JAR, JAR_COUNT, stdout, stderr, outcome,
           fetched, nfetch, requests, run, fs0, destKind0, prev >>

startVars == << spc, jm, tm, trapSet, cleanupRan, sout, sexit, sigs, boots >>

mcVars == << mcpc, minioUp, aliasSet, bucket, policy, objects, objs0,
             written, cmds, waits, mcStarts >>

vars == << jarVars, startVars, mcVars >>

\* The file system outside the six manifest paths.
diskVars == << destKind, parentKind, parentWritable, other >>

\* What is kept about the invocations besides the shell's own state.
histVars == << run, fs0, destKind0, prev >>

\* ------------------------------------------------------------- helpers

\* "$1": the first positional parameter, empty when there is none.
Arg1(a) == IF Len(a) >= 1 THEN a[1] ELSE ""

IsHelp_long(a) == Arg1(a) = "--help"

\* [[ "$1" == "-h" || "$1" == "--help" ]]  (line 10)
IsHelp(a) == Arg1(a) = "-h" \/ Arg1(a) = "--help"

ArgMissing_count(a) == Len(a) = 0

\* [[ -z "$1" ]]  (line 29)
ArgMissing(a) == Arg1(a) = ""

MkdirP_always(d, pw) == TRUE

\* mkdir -p "${DEST_PATH}" (line 56), called when DEST_PATH is not a
\* directory: succeeds when nothing is at the path and the missing
\* directories can be created, fails when a non-directory is in the way or
\* the parent is not writable.
MkdirP(d, pw) == d = "absent" /\ pw

IsFile_complete(f) == f = "full"

IsFile_dir(f) == f = "dir"

\* [ -f "${filepath}" ]  (line 75): a regular file, whatever its content.
IsFile(f) == f = "partial" \/ f = "full"

\* wget ... -O "${filepath}" (line 83) opens, and truncates, the output
\* file when it starts.
WgetOpen(files, k) == [files EXCEPT ![k] = "partial"]

\* wget exits 0 (line 83): the whole artifact is in the file.
WgetDone(files, k) == [files EXCEPT ![k] = "full"]

RmF_skip(files, k) == files

\* rm -f "${filepath}"  (line 88)
RmF(files, k) == [files EXCEPT ![k] = "absent"]

\* set -e (line 7): a simple command that returns non-zero ends the shell
\* with that status.  download_jar is called as a simple command at lines
\* 101-128, so its "return 1" ends the script.
ErrExit == TRUE

\* Where the shell goes after the k-th download_jar call returned 0.
AfterCall(k) == IF k = TOTAL_JARS THEN "summary" ELSE "download_jar"

Incr_twice(c) == c + 2

\* CURRENT_JAR=$((CURRENT_JAR + 1))  (line 73)
Incr(c) == c + 1

\* echo ... (no redirection): the line goes to standard output.
Echo(out, lines) == out \o lines

\* find "${DEST_PATH}" -name "*.jar" -type f | wc -l  (line 134): every
\* regular file with a .jar name under DEST_PATH, manifest or not.
FindJars(files, others) ==
    Cardinality({k \in DOMAIN files : IsFile(files[k])})
    + Cardinality({p \in DOMAIN others : IsFile(others[p])})

\* ---------------------------------------------------------------- Init

NumPresent(files) == Cardinality({k \in Entries : files[k] # "absent"})

\* The flink-dev container has not been started.
StartOff ==
    /\ spc = "off"
    /\ jm = "not_started"
    /\ tm = "not_started"
    /\ trapSet = FALSE
    /\ cleanupRan = FALSE
    /\ sout = <<>>
    /\ sexit = NoExit
    /\ sigs = 0
    /\ boots = 0

\* Neither MinIO nor the mc container has been started, on an empty
\* minio_data volume.
McOff ==
    /\ mcpc = "off"
    /\ minioUp = FALSE
    /\ aliasSet = FALSE
    /\ bucket = FALSE
    /\ policy = "none"
    /\ objects = {}
    /\ objs0 = {}
    /\ written = {}
    /\ cmds = <<>>
    /\ waits = 0
    /\ mcStarts = 0

\* download-jars.sh has not been invoked.
InitJars ==
    /\ argv = <<>>
    /\ pc = "idle"
    /\ exitCode = NoExit
    /\ destKind \in DestStates
    /\ parentKind \in ParentStates
    /\ destKind # "absent" => parentKind = "dir"
    /\ parentWritable \in BOOLEAN
    /\ fs \in [Entries -> FileStates]
    /\ NumPresent(fs) <= MaxPre
    /\ destKind # "dir" => \A k \in Entries : fs[k] = "absent"
    /\ other \in [OtherPaths -> {"absent", "full"}]
    /\ destKind # "dir" => \A p \in OtherPaths : other[p] = "absent"
    /\ call = 0
    /\ CURRENT_JAR = 0
    /\ JAR_COUNT = 0
    /\ stdout = <<>>
    /\ stderr = <<>>
    /\ outcome = [k \in Entries |-> "Unknown"]
    /\ fetched = {}
    /\ nfetch = [k \in Entries |-> 0]
    /\ requests = {}
    /\ run = 0
    /\ fs0 = fs
    /\ destKind0 = destKind
    /\ prev = [k \in Entries |-> "Unknown"]

Init == InitJars /\ StartOff /\ McOff

\* -------------------------------------------------------------- actions

\* The user starts the script: a fresh shell, on the file system as the
\* earlier invocations left it.
Invoke(a) ==
    /\ pc \in {"idle", "exited", "killed"}
    /\ run < MaxRuns
    /\ run' = run + 1
    /\ argv' = a
    /\ pc' = "help_check"
    /\ exitCode' = NoExit
    /\ call' = 0
    /\ CURRENT_JAR' = 0
    /\ JAR_COUNT' = 0
    /\ stdout' = <<>>
    /\ stderr' = <<>>
    /\ prev' = outcome
    /\ outcome' = [k \in Entries |-> "Unknown"]
    /\ fetched' = {}
    /\ nfetch' = [k \in Entries |-> 0]
    /\ requests' = {}
    /\ fs0' = fs
    /\ destKind0' = destKind
    /\ UNCHANGED << diskVars, fs >>
    /\ UNCHANGED << startVars, mcVars >>

\* Lines 9-26: the help check.
HelpCheck ==
    /\ pc = "help_check"
    /\ IF IsHelp(argv)
         THEN /\ stdout' = Echo(stdout, << Text("usage") >>)
              /\ pc' = "exited" /\ exitCode' = 0
         ELSE /\ stdout' = stdout
              /\ pc' = "validate_arg" /\ exitCode' = exitCode
    /\ UNCHANGED << argv, diskVars, fs, call, CURRENT_JAR, JAR_COUNT, stderr,
                    outcome, fetched, nfetch, histVars >>
    /\ UNCHANGED requests
    /\ UNCHANGED << startVars, mcVars >>

\* Lines 28-40: the required argument.
ValidateArg ==
    /\ pc = "validate_arg"
    /\ IF ArgMissing(argv)
         THEN /\ stdout' = Echo(stdout, << Text("arg_error"), Text("usage") >>)
              /\ pc' = "exited" /\ exitCode' = 1
         ELSE /\ stdout' = stdout
              /\ pc' = "validate_dest" /\ exitCode' = exitCode
    /\ UNCHANGED << argv, diskVars, fs, call, CURRENT_JAR, JAR_COUNT, stderr,
                    outcome, fetched, nfetch, histVars >>
    /\ UNCHANGED requests
    /\ UNCHANGED << startVars, mcVars >>

\* Lines 48-65 and 94-98: the destination directory is there or is created
\* (mkdir -p creates its missing ancestors too), then the counters are set.
ValidateDest ==
    /\ pc = "validate_dest"
    /\ IF destKind # "dir"
         THEN IF MkdirP(destKind, parentWritable)
                THEN /\ destKind' = "dir" /\ parentKind' = "dir"
                     /\ stdout' = Echo(stdout,
                            << Text("no_dest"), Text("creating"),
                               Text("created"), Text("target"),
                               Line("starting", 0, 0, TOTAL_JARS, 0) >>)
                     /\ pc' = "download_jar" /\ exitCode' = exitCode
                ELSE /\ destKind' = destKind /\ parentKind' = parentKind
                     /\ stdout' = Echo(stdout,
                            << Text("no_dest"), Text("creating"),
                               Text("create_failed") >>)
                     /\ pc' = "exited" /\ exitCode' = 1
         ELSE /\ destKind' = destKind /\ parentKind' = parentKind
              /\ stdout' = Echo(stdout,
                     << Text("target"),
                        Line("starting", 0, 0, TOTAL_JARS, 0) >>)
              /\ pc' = "download_jar" /\ exitCode' = exitCode
    /\ CURRENT_JAR' = 0
    /\ UNCHANGED << argv, parentWritable, other, fs, call, JAR_COUNT, stderr,
                    outcome, fetched, nfetch, histVars >>
    /\ UNCHANGED requests
    /\ UNCHANGED << startVars, mcVars >>

download_jar_background ==
    /\ pc = "download_jar"
    /\ call < TOTAL_JARS
    /\ LET k == call + 1
           c == Incr(CURRENT_JAR) IN
         /\ call' = k
         /\ CURRENT_JAR' = c
         /\ pc' = AfterCall(k)
         /\ IF IsFile(fs[k])
              THEN /\ outcome' = [outcome EXCEPT ![k] = "AlreadyPresent"]
                   /\ stdout' = Echo(stdout,
                                     << Line("skip", k, c, TOTAL_JARS, 0) >>)
                   /\ UNCHANGED << fs, fetched, nfetch, requests >>
              ELSE /\ outcome' = [outcome EXCEPT ![k] = "Downloading"]
                   /\ stdout' = Echo(stdout,
                            << Line("downloading", k, c, TOTAL_JARS, 0) >>)
                   /\ fetched' = fetched \cup {k}
                   /\ nfetch' = [nfetch EXCEPT ![k] = @ + 1]
                   /\ requests' = requests \cup {Request(k)}
                   /\ fs' = WgetOpen(fs, k)
    /\ UNCHANGED << argv, exitCode, diskVars, JAR_COUNT, stderr, histVars >>
    /\ UNCHANGED << startVars, mcVars >>

\* Lines 68-83: the next download_jar call of lines 100-128, up to the
\* start of wget, which runs in the foreground.
download_jar ==
    /\ pc = "download_jar"
    /\ call < TOTAL_JARS
    /\ LET k == call + 1
           c == Incr(CURRENT_JAR) IN
         /\ call' = k
         /\ CURRENT_JAR' = c
         /\ IF IsFile(fs[k])
              THEN /\ outcome' = [outcome EXCEPT ![k] = "AlreadyPresent"]
                   /\ stdout' = Echo(stdout,
                                     << Line("skip", k, c, TOTAL_JARS, 0) >>)
                   /\ pc' = AfterCall(k)
                   /\ UNCHANGED << fs, fetched, nfetch, requests >>
              ELSE /\ outcome' = [outcome EXCEPT ![k] = "Downloading"]
                   /\ stdout' = Echo(stdout,
                            << Line("downloading", k, c, TOTAL_JARS, 0) >>)
                   /\ fetched' = fetched \cup {k}
                   /\ nfetch' = [nfetch EXCEPT ![k] = @ + 1]
                   /\ requests' = requests \cup {Request(k)}
                   /\ fs' = WgetOpen(fs, k)
                   /\ pc' = "wget"
    /\ UNCHANGED << argv, exitCode, diskVars, JAR_COUNT, stderr, histVars >>
    /\ UNCHANGED << startVars, mcVars >>

\* Lines 83-85: wget exits 0.  Its output (2>&1) is on standard output.
WgetSucceed ==
    /\ pc = "wget"
    /\ LET k == call IN
         /\ fs' = WgetDone(fs, k)
         /\ outcome' = [outcome EXCEPT ![k] = "Downloaded"]
         /\ stdout' = Echo(stdout,
                << Line("wget_output", k, 0, 0, 0),
                   Line("downloaded", k, CURRENT_JAR, TOTAL_JARS, 0) >>)
         /\ pc' = AfterCall(k)
    /\ UNCHANGED << argv, exitCode, diskVars, call, CURRENT_JAR, JAR_COUNT,
                    stderr, fetched, nfetch, histVars >>
    /\ UNCHANGED requests
    /\ UNCHANGED << startVars, mcVars >>

WgetFail_retry ==
    /\ pc = "wget"
    /\ LET k == call IN
         /\ nfetch[k] < 2
         /\ outcome' = [outcome EXCEPT ![k] = "Failed"]
         /\ stdout' = Echo(stdout,
                << Line("wget_output", k, 0, 0, 0),
                   Line("failed", k, CURRENT_JAR, TOTAL_JARS, 0) >>)
         /\ nfetch' = [nfetch EXCEPT ![k] = @ + 1]
         /\ fs' = WgetOpen(RmF(fs, k), k)
         /\ pc' = "wget"
    /\ UNCHANGED << argv, exitCode, diskVars, call, CURRENT_JAR, JAR_COUNT,
                    stderr, fetched, histVars >>
    /\ UNCHANGED requests
    /\ UNCHANGED << startVars, mcVars >>

WgetFail_rmrf ==
    /\ pc = "wget"
    /\ LET k == call IN
         /\ outcome' = [outcome EXCEPT ![k] = "Failed"]
         /\ stdout' = Echo(stdout,
                << Line("wget_output", k, 0, 0, 0),
                   Line("failed", k, CURRENT_JAR, TOTAL_JARS, 0) >>)
         /\ fs' = [j \in Entries |-> "absent"]
         /\ other' = [p \in OtherPaths |-> "absent"]
         /\ destKind' = "absent"
         /\ pc' = "exited" /\ exitCode' = 1
    /\ UNCHANGED << argv, parentKind, parentWritable, call, CURRENT_JAR,
                    JAR_COUNT, stderr, fetched, nfetch, histVars >>
    /\ UNCHANGED requests
    /\ UNCHANGED << startVars, mcVars >>

\* Lines 86-90 with line 7: wget exits non-zero, the file is removed,
\* download_jar returns 1.
WgetFail ==
    /\ pc = "wget"
    /\ LET k == call IN
         /\ outcome' = [outcome EXCEPT ![k] = "Failed"]
         /\ stdout' = Echo(stdout,
                << Line("wget_output", k, 0, 0, 0),
                   Line("failed", k, CURRENT_JAR, TOTAL_JARS, 0) >>)
         /\ fs' = RmF(fs, k)
         /\ IF ErrExit
              THEN pc' = "exited" /\ exitCode' = 1
              ELSE pc' = AfterCall(k) /\ exitCode' = exitCode
    /\ UNCHANGED << argv, diskVars, call, CURRENT_JAR, JAR_COUNT, stderr,
                    fetched, nfetch, histVars >>
    /\ UNCHANGED requests
    /\ UNCHANGED << startVars, mcVars >>

\* The shell and its wget child are killed while wget is writing (line 83).
\* The script installs no trap, so nothing runs after the signal and the
\* shell leaves no exit status of its own.
Kill ==
    /\ pc = "wget"
    /\ pc' = "killed"
    /\ UNCHANGED << argv, exitCode, diskVars, fs, call, CURRENT_JAR,
                    JAR_COUNT, stdout, stderr, outcome, fetched, nfetch,
                    histVars >>
    /\ UNCHANGED requests
    /\ UNCHANGED << startVars, mcVars >>

\* Lines 130-142: the count, the summary and the listing; the last
\* command's status is 0.
Summary ==
    /\ pc = "summary"
    /\ LET n == FindJars(fs, other) IN
         /\ JAR_COUNT' = n
         /\ stdout' = Echo(stdout,
                << Text("completed"), Line("summary", 0, 0, 0, n),
                   Text("listing") >>)
    /\ pc' = "exited"
    /\ exitCode' = 0
    /\ UNCHANGED << argv, diskVars, fs, call, CURRENT_JAR, stderr, outcome,
                    fetched, nfetch, histVars >>
    /\ UNCHANGED requests
    /\ UNCHANGED << startVars, mcVars >>

Next ==
    \/ \E a \in Argvs : Invoke(a)
    \/ HelpCheck
    \/ ValidateArg
    \/ ValidateDest
    \/ download_jar
    \/ WgetSucceed
    \/ WgetFail
    \/ Kill
    \/ Summary

Spec == Init /\ [][Next]_vars

\* The user starts the script, any number of times: the same fresh shell
\* on the same file system, without the count of invocations.
Reinvoke(a) ==
    /\ pc \in {"idle", "exited", "killed"}
    /\ argv' = a
    /\ pc' = "help_check"
    /\ exitCode' = NoExit
    /\ call' = 0
    /\ CURRENT_JAR' = 0
    /\ JAR_COUNT' = 0
    /\ stdout' = <<>>
    /\ stderr' = <<>>
    /\ prev' = outcome
    /\ outcome' = [k \in Entries |-> "Unknown"]
    /\ fetched' = {}
    /\ nfetch' = [k \in Entries |-> 0]
    /\ requests' = {}
    /\ fs0' = fs
    /\ destKind0' = destKind
    /\ UNCHANGED << diskVars, fs, run >>
    /\ UNCHANGED << startVars, mcVars >>

NextForever ==
    \/ \E a \in Argvs : Reinvoke(a)
    \/ HelpCheck
    \/ ValidateArg
    \/ ValidateDest
    \/ download_jar
    \/ WgetSucceed
    \/ WgetFail
    \/ Kill
    \/ Summary

\* The destinations the repeated invocations start from: those of Init
\* that hold no JAR file besides the manifest's (such files are only
\* counted by the script, line 134).
InitForever == Init /\ \A p \in OtherPaths : other[p] = "absent"

\* The script invoked again and again: the shell always takes its next
\* step, the user keeps invoking the script with the destination, and a
\* fetch that is attempted again and again succeeds at some attempt.
SpecForever ==
    /\ InitForever
    /\ [][NextForever]_vars
    /\ WF_vars(HelpCheck \/ ValidateArg \/ ValidateDest \/ download_jar
               \/ Summary)
    /\ SF_vars(WgetSucceed)
    /\ SF_vars(Reinvoke(<< "dest" >>))

\* ------------------------------------------ the flink-dev start script
\*
\* start.sh is the command of the flink-dev container (Dockerfile line
\* 93), so the shell that runs it is the container's main process until
\* line 45 replaces it.

Signals == {"SIGTERM", "SIGINT"}

ProcStates == {"not_started", "running", "exited", "killed"}

StartPositions == {"off", "banner", "start_jm", "sleep5", "start_tm",
                   "sleep10", "ready", "trap", "exec", "jupyter",
                   "exited", "signalled"}

StartLines == {"starting", "jars", "cluster", "jobmanager", "taskmanager",
               "ready", "urls", "shutdown"}

\* The download program has not been invoked, on an empty disk.
JarsOff ==
    /\ destKind = "absent"
    /\ parentKind = "dir"
    /\ parentWritable
    /\ \A p \in OtherPaths : other[p] = "absent"

\* kill PID: a running process is terminated; the PID of a process that
\* is gone is an error the script discards (2>/dev/null).
KillProc(p) == IF p = "running" THEN "killed" ELSE p

\* The main process ends and with it the container: the processes left
\* in it are killed by the container runtime, not by the script.
Teardown(p) == IF p = "running" THEN "killed" ELSE p

\* exec replaces the shell by the program: the traps of the shell are
\* not inherited by it.
TrapAfterExec(t) == FALSE

\* docker compose starts the container, or restarts it after its main
\* process ended (restart: unless-stopped).
ContainerStart ==
    /\ spc \in {"off", "exited", "signalled"}
    /\ boots < MaxBoots
    /\ boots' = boots + 1
    /\ spc' = "banner"
    /\ jm' = "not_started"
    /\ tm' = "not_started"
    /\ trapSet' = FALSE
    /\ cleanupRan' = FALSE
    /\ sout' = <<>>
    /\ sexit' = NoExit
    /\ UNCHANGED sigs
    /\ UNCHANGED << jarVars, mcVars >>

\* Lines 3-8: the banner and the list of JAR files.
Banner ==
    /\ spc = "banner"
    /\ sout' = sout \o << "starting", "jars", "cluster" >>
    /\ spc' = "start_jm"
    /\ UNCHANGED << jm, tm, trapSet, cleanupRan, sexit, sigs, boots >>
    /\ UNCHANGED << jarVars, mcVars >>

\* Lines 11-13: the JobManager is started in the background.
StartJobManager ==
    /\ spc = "start_jm"
    /\ sout' = Append(sout, "jobmanager")
    /\ jm' = "running"
    /\ spc' = "sleep5"
    /\ UNCHANGED << tm, trapSet, cleanupRan, sexit, sigs, boots >>
    /\ UNCHANGED << jarVars, mcVars >>

\* Line 16: sleep 5.
Sleep5 ==
    /\ spc = "sleep5"
    /\ spc' = "start_tm"
    /\ UNCHANGED << jm, tm, trapSet, cleanupRan, sout, sexit, sigs, boots >>
    /\ UNCHANGED << jarVars, mcVars >>

\* Lines 19-21: the TaskManager is started in the background.
StartTaskManager ==
    /\ spc = "start_tm"
    /\ sout' = Append(sout, "taskmanager")
    /\ tm' = "running"
    /\ spc' = "sleep10"
    /\ UNCHANGED << jm, trapSet, cleanupRan, sexit, sigs, boots >>
    /\ UNCHANGED << jarVars, mcVars >>

\* Line 24: sleep 10.
Sleep10 ==
    /\ spc = "sleep10"
    /\ spc' = "ready"
    /\ UNCHANGED << jm, tm, trapSet, cleanupRan, sout, sexit, sigs, boots >>
    /\ UNCHANGED << jarVars, mcVars >>

\* Lines 26-30: the messages after the two sleeps; nothing is tested
\* before they are printed.
Ready ==
    /\ spc = "ready"
    /\ sout' = sout \o << "ready", "urls" >>
    /\ spc' = "trap"
    /\ UNCHANGED << jm, tm, trapSet, cleanupRan, sexit, sigs, boots >>
    /\ UNCHANGED << jarVars, mcVars >>

\* Lines 34-41: cleanup is defined and set as the trap of both signals.
Trap ==
    /\ spc = "trap"
    /\ trapSet' = TRUE
    /\ spc' = "exec"
    /\ UNCHANGED << jm, tm, cleanupRan, sout, sexit, sigs, boots >>
    /\ UNCHANGED << jarVars, mcVars >>

\* Lines 44-45: cd, then exec: Jupyter Lab takes the place of the shell
\* as the main process.
ExecJupyter ==
    /\ spc = "exec"
    /\ trapSet' = TrapAfterExec(trapSet)
    /\ spc' = "jupyter"
    /\ UNCHANGED << jm, tm, cleanupRan, sout, sexit, sigs, boots >>
    /\ UNCHANGED << jarVars, mcVars >>

\* A background process ends by itself (jobmanager.sh or taskmanager.sh
\* fails or its JVM stops); the script never waits for it or tests it.
JobManagerExits ==
    /\ jm = "running"
    /\ jm' = "exited"
    /\ UNCHANGED << spc, tm, trapSet, cleanupRan, sout, sexit, sigs, boots >>
    /\ UNCHANGED << jarVars, mcVars >>

TaskManagerExits ==
    /\ tm = "running"
    /\ tm' = "exited"
    /\ UNCHANGED << spc, jm, trapSet, cleanupRan, sout, sexit, sigs, boots >>
    /\ UNCHANGED << jarVars, mcVars >>

\* Lines 34-38, the handler: the message, kill of both PIDs, exit 0.
cleanup ==
    /\ cleanupRan' = TRUE
    /\ sout' = Append(sout, "shutdown")
    /\ jm' = KillProc(jm)
    /\ tm' = KillProc(tm)
    /\ sexit' = 0
    /\ spc' = "exited"

\* A signal reaches the shell while no trap is set (lines 3-33): the
\* shell has the default disposition, which ends it, unless the kernel
\* drops the signal because the shell is the container's init process.
SignalBeforeTrap(sig, dropped) ==
    /\ spc \in {"banner", "start_jm", "sleep5", "start_tm", "sleep10",
                "ready", "trap"}
    /\ ~trapSet
    /\ sigs < MaxSignals
    /\ sigs' = sigs + 1
    /\ IF dropped
       THEN UNCHANGED << spc, jm, tm >>
       ELSE /\ spc' = "signalled"
            /\ jm' = Teardown(jm)
            /\ tm' = Teardown(tm)
    /\ UNCHANGED << trapSet, cleanupRan, sout, sexit, boots >>
    /\ UNCHANGED << jarVars, mcVars >>

\* A signal reaches the shell between line 41 and line 45: the trap runs
\* the handler.
SignalTrapped(sig) ==
    /\ spc = "exec"
    /\ trapSet
    /\ sigs < MaxSignals
    /\ sigs' = sigs + 1
    /\ cleanup
    /\ UNCHANGED << trapSet, boots >>
    /\ UNCHANGED << jarVars, mcVars >>

\* A signal reaches the main process after line 45.  The shell and its
\* trap are gone: the signal is Jupyter Lab's to handle, which stops
\* (the model grants it status 0) or keeps running.
SignalJupyter(sig, stops) ==
    /\ spc = "jupyter"
    /\ ~trapSet
    /\ sigs < MaxSignals
    /\ sigs' = sigs + 1
    /\ IF stops
       THEN /\ spc' = "exited"
            /\ sexit' = 0
            /\ jm' = Teardown(jm)
            /\ tm' = Teardown(tm)
       ELSE UNCHANGED << spc, sexit, jm, tm >>
    /\ UNCHANGED << trapSet, cleanupRan, sout, boots >>
    /\ UNCHANGED << jarVars, mcVars >>

NextStart ==
    \/ ContainerStart
    \/ Banner
    \/ StartJobManager
    \/ Sleep5
    \/ StartTaskManager
    \/ Sleep10
    \/ Ready
    \/ Trap
    \/ ExecJupyter
    \/ JobManagerExits
    \/ TaskManagerExits
    \/ \E sig \in Signals, dropped \in BOOLEAN : SignalBeforeTrap(sig, dropped)
    \/ \E sig \in Signals : SignalTrapped(sig)
    \/ \E sig \in Signals, stops \in BOOLEAN : SignalJupyter(sig, stops)

InitStart == Init /\ JarsOff

SpecStart == InitStart /\ [][NextStart]_vars

TypeOKStart ==
    /\ spc \in StartPositions
    /\ jm \in ProcStates
    /\ tm \in ProcStates
    /\ trapSet \in BOOLEAN
    /\ cleanupRan \in BOOLEAN
    /\ \A i \in DOMAIN sout : sout[i] \in StartLines
    /\ sexit \in {NoExit, 0}
    /\ sigs \in 0..MaxSignals
    /\ boots \in 0..MaxBoots

\* --------------------------------------- the mc service of the compose
\*
\* The entrypoint of service mc is one sh -c script: an until loop around
\* "mc alias set", then three mc commands separated by ";" (the exit
\* status of each is discarded), then tail -f /dev/null.  MinIO keeps
\* its data in the named volume minio_data, which outlives the
\* containers; within one session MinIO is taken to stay reachable once
\* it is.

ObjIds == 1..MaxObjects

McPositions == {"off", "alias", "rm", "mb", "anonymous", "tail"}

Policies == {"none", "private", "public"}

BucketCmds == {"rm", "mb", "anonymous"}

\* mc rm -r --force minio/warehouse: every object of the bucket is
\* removed; the bucket itself stays.
RmRecursive_keep(objs) == objs

RmRecursive(objs) == {}

\* What the minio_data volume may hold from the sessions before: no
\* bucket, or the bucket with the objects written so far.
McInit ==
    /\ mcpc = "off"
    /\ minioUp = FALSE
    /\ aliasSet = FALSE
    /\ bucket \in BOOLEAN
    /\ policy \in Policies
    /\ policy = "none" <=> ~bucket
    /\ objects \in SUBSET ObjIds
    /\ ~bucket => objects = {}
    /\ objs0 = {}
    /\ written = objects
    /\ cmds = <<>>
    /\ waits = 0
    /\ mcStarts = 0

\* The MinIO server (lines 39-55) starts answering on minio:9000.
MinioComesUp ==
    /\ ~minioUp
    /\ minioUp' = TRUE
    /\ UNCHANGED << mcpc, aliasSet, bucket, policy, objects, objs0, written,
                    cmds, waits, mcStarts >>
    /\ UNCHANGED << jarVars, startVars >>

\* The mc container is started, or started again: the entrypoint runs
\* from its first command; depends_on orders it after the start of the
\* minio container, not after MinIO being reachable.
McStart ==
    /\ mcStarts < MaxMcStarts
    /\ mcStarts' = mcStarts + 1
    /\ mcpc' = "alias"
    /\ aliasSet' = FALSE
    /\ cmds' = <<>>
    /\ waits' = 0
    /\ objs0' = objects
    /\ UNCHANGED << minioUp, bucket, policy, objects, written >>
    /\ UNCHANGED << jarVars, startVars >>

\* Line 103, one round of the loop that does not wait for the alias.
McAliasTry_once ==
    /\ mcpc = "alias"
    /\ aliasSet' = minioUp
    /\ mcpc' = "rm"
    /\ UNCHANGED << minioUp, bucket, policy, objects, objs0, written, cmds,
                    waits, mcStarts >>
    /\ UNCHANGED << jarVars, startVars >>

\* Line 103: until (mc alias set ...) do echo '...waiting...' && sleep 1;
\* done.  One round: the alias is set and the loop is left, or the
\* attempt fails, the line is printed and the loop sleeps a second.
McAliasTry ==
    /\ mcpc = "alias"
    /\ IF minioUp
       THEN /\ aliasSet' = TRUE
            /\ mcpc' = "rm"
            /\ UNCHANGED waits
       ELSE /\ waits' = IF waits < MaxWaits THEN waits + 1 ELSE waits
            /\ UNCHANGED << aliasSet, mcpc >>
    /\ UNCHANGED << minioUp, bucket, policy, objects, objs0, written, cmds,
                    mcStarts >>
    /\ UNCHANGED << jarVars, startVars >>

\* Line 104: mc rm -r --force minio/warehouse; it fails, without effect,
\* when the bucket does not exist.
McRm ==
    /\ mcpc = "rm"
    /\ cmds' = Append(cmds, "rm")
    /\ objects' = IF aliasSet /\ minioUp /\ bucket
                  THEN RmRecursive(objects)
                  ELSE objects
    /\ mcpc' = "mb"
    /\ UNCHANGED << minioUp, aliasSet, bucket, policy, objs0, written,
                    waits, mcStarts >>
    /\ UNCHANGED << jarVars, startVars >>

\* Line 105: mc mb minio/warehouse; it fails, without effect, when the
\* bucket exists already.
McMb ==
    /\ mcpc = "mb"
    /\ cmds' = Append(cmds, "mb")
    /\ IF aliasSet /\ minioUp /\ ~bucket
       THEN /\ bucket' = TRUE
            /\ policy' = "private"
       ELSE UNCHANGED << bucket, policy >>
    /\ mcpc' = "anonymous"
    /\ UNCHANGED << minioUp, aliasSet, objects, objs0, written, waits,
                    mcStarts >>
    /\ UNCHANGED << jarVars, startVars >>

\* Line 106: mc anonymous set public minio/warehouse; then line 107,
\* tail -f /dev/null, keeps the container alive.
McAnonymous ==
    /\ mcpc = "anonymous"
    /\ cmds' = Append(cmds, "anonymous")
    /\ policy' = IF aliasSet /\ minioUp /\ bucket THEN "public" ELSE policy
    /\ mcpc' = "tail"
    /\ UNCHANGED << minioUp, aliasSet, bucket, objects, objs0, written,
                    waits, mcStarts >>
    /\ UNCHANGED << jarVars, startVars >>

\* An engine of the compose file (spark-iceberg, iceberg-rest with
\* CATALOG_WAREHOUSE=s3://warehouse/, flink-dev) writes a new object to
\* the bucket.  None of them waits for mc.
EngineWrite(o) ==
    /\ minioUp
    /\ bucket
    /\ o \notin written
    /\ objects' = objects \cup {o}
    /\ written' = written \cup {o}
    /\ UNCHANGED << mcpc, minioUp, aliasSet, bucket, policy, objs0, cmds,
                    waits, mcStarts >>
    /\ UNCHANGED << jarVars, startVars >>

NextMc ==
    \/ MinioComesUp
    \/ McStart
    \/ McAliasTry
    \/ McRm
    \/ McMb
    \/ McAnonymous
    \/ \E o \in ObjIds : EngineWrite(o)

InitMc == InitJars /\ JarsOff /\ StartOff /\ McInit

\* The shell of the entrypoint always takes its next step.
SpecMc ==
    /\ InitMc
    /\ [][NextMc]_vars
    /\ WF_vars(McAliasTry \/ McRm \/ McMb \/ McAnonymous)

TypeOKMc ==
    /\ mcpc \in McPositions
    /\ minioUp \in BOOLEAN
    /\ aliasSet \in BOOLEAN
    /\ bucket \in BOOLEAN
    /\ policy \in Policies
    /\ objects \subseteq ObjIds
    /\ objs0 \subseteq ObjIds
    /\ written \subseteq ObjIds
    /\ \A i \in DOMAIN cmds : cmds[i] \in BucketCmds
    /\ waits \in 0..MaxWaits
    /\ mcStarts \in 0..MaxMcStarts

\* ------------------------------------------------------------ vocabulary

TypeOK ==
    /\ argv \in Argvs
    /\ pc \in {"idle", "help_check", "validate_arg", "validate_dest",
               "download_jar", "wget", "summary", "exited", "killed"}
    /\ exitCode \in {NoExit, 0, 1}
    /\ destKind \in DestStates
    /\ parentKind \in ParentStates
    /\ parentWritable \in BOOLEAN
    /\ fs \in [Entries -> FileStates]
    /\ other \in [OtherPaths -> {"absent", "full"}]
    /\ call \in 0..TOTAL_JARS
    /\ CURRENT_JAR \in 0..TOTAL_JARS
    /\ JAR_COUNT \in 0..(TOTAL_JARS + MaxOther)
    /\ \A i \in DOMAIN stdout : stdout[i].kind \in LineKinds
    /\ stderr = <<>>
    /\ nfetch \in [Entries -> 0..1]
    /\ requests \subseteq {Request(k) : k \in Entries}
    /\ outcome \in [Entries -> Outcomes]
    /\ fetched \subseteq Entries
    /\ run \in 0..MaxRuns
    /\ fs0 \in [Entries -> FileStates]
    /\ destKind0 \in DestStates
    /\ prev \in [Entries -> Outcomes]

\* The current invocation got past the destination-directory check.
PastDestCheck == pc \in {"download_jar", "wget", "summary", "killed"}
                 \/ (pc = "exited" /\ ~IsHelp(argv) /\ Arg1(argv) # ""
                                   /\ destKind = "dir")

\* The current invocation has ended by itself (it was not killed).
Ended == pc = "exited"

Terminal == {"AlreadyPresent", "Downloaded", "Failed"}

\* The current invocation was given a destination path and no help flag
\* in first position.
ArgsValid == ~IsHelp(argv) /\ Arg1(argv) # ""

\* ------------------------------------------------------------------ C1
\* C1: in every run that got past the destination-directory check and ended
\* by itself, a failed download did not stop the run: each of the six
\* entries has reached AlreadyPresent, Downloaded or Failed.
C1_FailureDoesNotStopRun ==
    (Ended /\ PastDestCheck) => \A k \in Entries : outcome[k] \in Terminal

\* ------------------------------------------------------------------ C2
\* C2: the exit code is 0 whenever the destination directory was usable,
\* failed downloads included; it is non-zero only when the argument is
\* missing or the destination directory could not be created.
C2_ExitZeroWhenDestUsable ==
    Ended =>
        /\ PastDestCheck => exitCode = 0
        /\ exitCode # 0 => (Arg1(argv) = "" \/ destKind # "dir")

\* ------------------------------------------------------------------ C3
\* C3: partial-failure isolation.  From an empty destination, when the run
\* has ended and the fetch of entry M is the one that failed (no other
\* fetch failed), M is the only Failed entry, the other five entries are
\* Downloaded and exactly their five files are in the destination.
C3_PartialFailureIsolation ==
    \A M \in Entries :
        ( /\ Ended /\ PastDestCheck
          /\ \A k \in Entries : fs0[k] = "absent"
          /\ outcome[M] = "Failed"
          /\ \A k \in Entries \ {M} : outcome[k] # "Failed" )
        => /\ \A k \in Entries \ {M} : outcome[k] = "Downloaded"
           /\ fs = [k \in Entries |-> IF k = M THEN "absent" ELSE "full"]

\* ------------------------------------------------------------------ C4
\* C4: atomic-or-absent.  Once download_jar has reported an entry as
\* Failed, nothing is at the entry's path: a failed fetch never leaves a
\* truncated file behind.
C4_FailedFetchLeavesNoFile ==
    \A k \in Entries : outcome[k] = "Failed" => fs[k] = "absent"

\* A fetch was started, wrote to the entry's path, and failed.
C4_Witness ==
    \E k \in Entries :
        /\ outcome[k] = "Failed"
        /\ k \in fetched
        /\ fs0[k] = "absent"
        /\ pc = "exited"

\* ------------------------------------------------------------------ C5
\* C5: when the previous invocation was killed while wget was writing
\* entry k's file, this invocation does not report the partial file as
\* already present.
C5_PartialFileNotReportedPresent ==
    \A k \in Entries :
        (prev[k] = "Downloading" /\ fs0[k] = "partial")
        => outcome[k] # "AlreadyPresent"

\* ------------------------------------------------------------------ C6
\* C6: the AlreadyPresent shortcut.  For every entry the run has examined,
\* if a regular file was at its path, whole or truncated, the entry is
\* reported AlreadyPresent, no fetch was issued for it and the file is
\* what it was when the run started.
C6_AlreadyPresentShortcut ==
    \A k \in Entries :
        (PastDestCheck /\ k <= call /\ fs0[k] # "absent")
        => /\ outcome[k] = "AlreadyPresent"
           /\ k \notin fetched
           /\ fs[k] = fs0[k]

\* A run has ended that skipped a truncated file and fetched another entry.
C6_Witness ==
    /\ Ended
    /\ \E k \in Entries : fs0[k] = "partial" /\ outcome[k] = "AlreadyPresent"
                          /\ fs[k] = "partial"
    /\ fetched # {}

\* ------------------------------------------------------------------ C7
\* C7: idempotence.  After a run that downloaded all six entries, the next
\* run issues no fetch, leaves every file as it was, and, when it is given
\* the destination and runs to its end, reports every entry AlreadyPresent
\* and exits 0.
C7_Idempotence ==
    (\A k \in Entries : prev[k] = "Downloaded")
    => /\ fetched = {}
       /\ fs = fs0
       /\ \A k \in Entries : fs[k] = "full"
       /\ (pc = "exited" /\ ArgsValid)
          => /\ \A k \in Entries : outcome[k] = "AlreadyPresent"
             /\ exitCode = 0

\* The second run after a fully successful first run has ended.
C7_Witness ==
    /\ \A k \in Entries : prev[k] = "Downloaded"
    /\ pc = "exited"
    /\ ArgsValid
    /\ \A k \in Entries : outcome[k] = "AlreadyPresent"

\* ------------------------------------------------------------------ C8
\* C8: re-running after a run with failures only retries the failures: a
\* fetch is issued only for entries that were Failed in the previous run,
\* and every entry that was Downloaded or AlreadyPresent is skipped.
C8_RerunRetriesOnlyFailures ==
    (\E j \in Entries : prev[j] = "Failed")
    => /\ \A k \in fetched : prev[k] = "Failed"
       /\ \A k \in Entries :
            prev[k] \in {"Downloaded", "AlreadyPresent"} => k \notin fetched

\* ------------------------------------------------------------------ C9
\* C9: destination handling.  The destination check leaves an existing
\* directory alone; otherwise it tries to create it: when nothing is at the
\* path and the parent is writable the directory exists afterwards and the
\* run proceeds to the manifest, and in every other case the script exits
\* with status 1.  A run that ended with the destination not a directory
\* has exit status 1, issued no fetch and wrote no file.
C9_DestinationHandling ==
    /\ [][ pc = "validate_dest" =>
             IF destKind = "dir"
               THEN destKind' = "dir" /\ pc' = "download_jar"
               ELSE IF destKind = "absent" /\ parentWritable
                      THEN destKind' = "dir" /\ pc' = "download_jar"
                      ELSE /\ destKind' = destKind
                           /\ pc' = "exited" /\ exitCode' = 1 ]_vars
    /\ []( (pc = "exited" /\ ArgsValid /\ destKind # "dir")
           => /\ exitCode = 1
              /\ fetched = {}
              /\ CURRENT_JAR = 0
              /\ fs = fs0
              /\ destKind = destKind0
              /\ \A k \in Entries : outcome[k] = "Unknown" )

\* A run was stopped by a destination that could not be created.
C9_Witness ==
    /\ pc = "exited"
    /\ ArgsValid
    /\ destKind # "dir"
    /\ exitCode = 1

\* ----------------------------------------------------------------- C10
\* C10: a missing or empty first argument is fatal before any work: the
\* run ends with status 1, and no directory was created, no fetch issued
\* and no file written; the run never reaches the destination check.
C10_MissingArgumentIsFatal ==
    Arg1(argv) = "" =>
        /\ pc \in {"idle", "help_check", "validate_arg", "exited"}
        /\ \A k \in Entries : outcome[k] = "Unknown"
        /\ destKind = destKind0
        /\ fetched = {}
        /\ fs = fs0
        /\ CURRENT_JAR = 0
        /\ pc = "exited" => exitCode = 1

\* A run with an empty first argument has ended, on a destination that
\* mkdir -p could have created.
C10_Witness ==
    /\ pc = "exited"
    /\ run >= 1
    /\ Arg1(argv) = ""
    /\ Len(argv) >= 1
    /\ destKind = "absent"
    /\ parentWritable

\* The lines of the given kind that this invocation wrote to a stream.
LinesOf(out, kind) == {i \in DOMAIN out : out[i].kind = kind}

\* ----------------------------------------------------------------- C11
\* C11: when the destination argument is missing, the usage text is
\* written to standard error, not to standard output, before the script
\* exits non-zero.
C11_UsageOnStderr ==
    (pc = "exited" /\ Arg1(argv) = "")
    => /\ LinesOf(stderr, "usage") # {}
       /\ LinesOf(stdout, "usage") = {}
       /\ exitCode # 0

\* ----------------------------------------------------------------- C12
\* C12 as stated: with -h or --help anywhere on the command line the
\* script has no side effect (no directory created, no fetch, no file
\* written) and, once it has ended, has printed the usage and exited 0.
C12_HelpFlagAnywhere ==
    (\E i \in DOMAIN argv : argv[i] \in {"-h", "--help"})
    => /\ destKind = destKind0
       /\ fs = fs0
       /\ fetched = {}
       /\ pc = "exited" => (exitCode = 0 /\ LinesOf(stdout, "usage") # {})

\* C12 as amended: with -h or --help as the first argument, whatever
\* follows it, the script has no side effect (no directory created, no
\* fetch, no file written), never reaches the argument or destination
\* checks and, once it has ended, has printed the usage and exited 0.
C12_HelpFlagFirst ==
    (Len(argv) >= 1 /\ argv[1] \in {"-h", "--help"})
    => /\ destKind = destKind0
       /\ fs = fs0
       /\ fetched = {}
       /\ pc \in {"help_check", "exited"}
       /\ pc = "exited" => (exitCode = 0 /\ LinesOf(stdout, "usage") # {})

\* A run with -h followed by a destination that mkdir -p could have
\* created has ended.
C12_Witness ==
    /\ pc = "exited"
    /\ argv = <<"-h", "dest">>
    /\ destKind = "absent"
    /\ parentWritable
    /\ exitCode = 0

\* ----------------------------------------------------------------- C13
\* C13: entries are processed one at a time in manifest order: an entry is
\* examined only when every earlier entry has reached a terminal outcome,
\* at most one fetch is in progress, and the progress lines come out in
\* manifest order.
C13_SequentialInOrder ==
    /\ \A k \in Entries :
         outcome[k] # "Unknown"
         => \A j \in 1..(k - 1) : outcome[j] \in Terminal
    /\ Cardinality({k \in Entries : outcome[k] = "Downloading"}) <= 1
    /\ \A i, j \in DOMAIN stdout :
         (i < j /\ stdout[i].kind \in ProgressKinds
                /\ stdout[j].kind \in ProgressKinds)
         => stdout[i].entry <= stdout[j].entry

\* A run that skipped an entry, downloaded the next and failed on the
\* third.
C13_Witness ==
    /\ pc = "exited"
    /\ outcome[1] = "AlreadyPresent"
    /\ outcome[2] = "Downloaded"
    /\ outcome[3] = "Failed"

\* ----------------------------------------------------------------- C14
\* C14: the count printed in the summary line equals the number of entries
\* whose outcome in this run is AlreadyPresent or Downloaded, whatever the
\* destination directory held at the start.
C14_CountMatchesOutcomes ==
    \A i \in LinesOf(stdout, "summary") :
        stdout[i].count =
            Cardinality({k \in Entries :
                           outcome[k] \in {"AlreadyPresent", "Downloaded"}})

\* ----------------------------------------------------------------- C15
\* C15: every run that got past the destination check and ended by itself
\* has printed the summary line and the listing; when a download failed,
\* the printed count is smaller than the manifest size.
C15_SummaryAlwaysPrinted ==
    (Ended /\ PastDestCheck)
    => /\ LinesOf(stdout, "summary") # {}
       /\ LinesOf(stdout, "listing") # {}
       /\ (\E k \in Entries : outcome[k] = "Failed")
          => \A i \in LinesOf(stdout, "summary") : stdout[i].count < TOTAL_JARS

\* ----------------------------------------------------------------- C16
\* C16: per-entry state machine.  A run starts with every entry Unknown,
\* and within a run an entry's state only changes Unknown ->
\* AlreadyPresent, Unknown -> Downloading, Downloading -> Downloaded or
\* Downloading -> Failed; a terminal state never changes.
C16_EntryStateMachine ==
    [][ IF run' # run
          THEN \A k \in Entries : outcome'[k] = "Unknown"
          ELSE \A k \in Entries :
                 outcome'[k] # outcome[k]
                 => << outcome[k], outcome'[k] >> \in
                      { << "Unknown", "AlreadyPresent" >>,
                        << "Unknown", "Downloading" >>,
                        << "Downloading", "Downloaded" >>,
                        << "Downloading", "Failed" >> } ]_vars

\* One run has brought entries to each of the three terminal states.
C16_Witness ==
    /\ \E k \in Entries : outcome[k] = "AlreadyPresent"
    /\ \E k \in Entries : outcome[k] = "Downloaded"
    /\ \E k \in Entries : outcome[k] = "Failed"
    /\ \E k \in Entries : outcome[k] = "Unknown"

\* ----------------------------------------------------------------- C17
\* C17: progress counter.  CURRENT_JAR equals the number of download_jar
\* calls started (one increment per entry, skipped, downloaded or failed);
\* every progress line of the k-th entry carries [k/6], with
\* 1 <= k <= TOTAL_JARS.
C17_ProgressCounter ==
    /\ CURRENT_JAR = call
    /\ \A i \in DOMAIN stdout :
         stdout[i].kind \in ProgressKinds
         => /\ stdout[i].cur = stdout[i].entry
            /\ stdout[i].total = TOTAL_JARS
            /\ 1 <= stdout[i].cur /\ stdout[i].cur <= TOTAL_JARS

\* A run that skipped some entries and downloaded others has printed the
\* progress lines of all six.
C17_Witness ==
    /\ pc = "summary"
    /\ CURRENT_JAR = TOTAL_JARS
    /\ LinesOf(stdout, "skip") # {}
    /\ LinesOf(stdout, "downloaded") # {}

\* ----------------------------------------------------------------- C18
\* C18: no internal retries.  Within one run at most one wget is started
\* per entry; an entry that is Failed has had exactly one.
C18_AtMostOneFetch ==
    \A k \in Entries :
        /\ nfetch[k] <= 1
        /\ nfetch[k] = 1 <=> k \in fetched
        /\ outcome[k] = "Failed" => nfetch[k] = 1

\* A run ended on a failed fetch after a successful one.
C18_Witness ==
    /\ pc = "exited"
    /\ \E k \in Entries : outcome[k] = "Failed" /\ nfetch[k] = 1
    /\ \E k \in Entries : outcome[k] = "Downloaded" /\ nfetch[k] = 1

\* ----------------------------------------------------------------- C19
\* C19 as stated: the script creates, writes or removes nothing but the
\* destination directory and the six manifest paths: the other files in
\* the destination and the destination's parent are never changed.
C19_WriteFootprint ==
    [][ other' = other /\ parentKind' = parentKind ]_vars

\* C19 as amended: besides the destination directory and the six manifest
\* paths, the only path the script changes is a missing ancestor of the
\* destination, which mkdir -p creates together with the destination;
\* the other files in the destination are never changed.
C19_WriteFootprintWithAncestors ==
    [][ /\ other' = other
        /\ parentKind' # parentKind
           => /\ pc = "validate_dest"
              /\ parentKind = "absent" /\ parentKind' = "dir"
              /\ destKind = "absent" /\ destKind' = "dir" ]_vars

\* A run that fetched, failed and cleaned up, in a destination that holds
\* a JAR file of someone else.
C19_Witness ==
    /\ pc = "exited"
    /\ \E p \in OtherPaths : other[p] = "full"
    /\ \E k \in Entries : outcome[k] = "Failed"
    /\ \E k \in Entries : outcome[k] = "Downloaded"

\* ----------------------------------------------------------------- C20
\* C20: the destination directory is never deleted: once DEST_PATH is a
\* directory it is a directory in every later state.
C20_DestinationNeverDeleted ==
    [][ destKind = "dir" => destKind' = "dir" ]_vars

\* A run that created the destination has ended on a failed download and
\* its cleanup.
C20_Witness ==
    /\ pc = "exited"
    /\ destKind0 = "absent"
    /\ destKind = "dir"
    /\ \E k \in Entries : outcome[k] = "Failed"

\* ----------------------------------------------------------------- C21
\* The Maven coordinates of the six artifacts: group (the parts of its
\* dotted name), name and version.
Coordinates(k) ==
    CASE k = 1 -> [group |-> << "org", "apache", "iceberg" >>,
                   name |-> "iceberg-flink-runtime-1.20",
                   version |-> "1.9.1"]
      [] k = 2 -> [group |-> << "org", "apache", "flink" >>,
                   name |-> "flink-s3-fs-hadoop", version |-> "1.20.0"]
      [] k = 3 -> [group |-> << "org", "apache", "hadoop" >>,
                   name |-> "hadoop-common", version |-> "3.3.4"]
      [] k = 4 -> [group |-> << "org", "apache", "flink" >>,
                   name |-> "flink-shaded-hadoop-2-uber",
                   version |-> "2.8.3-10.0"]
      [] k = 5 -> [group |-> << "org", "apache", "hadoop" >>,
                   name |-> "hadoop-hdfs-client", version |-> "3.3.4"]
      [] k = 6 -> [group |-> << "org", "apache", "iceberg" >>,
                   name |-> "iceberg-aws-bundle", version |-> "1.9.1"]

\* name + "-" + version + ".jar"
JarName(c) == c.name \o "-" \o c.version \o ".jar"

\* base + "/" + group with dots replaced by slashes + "/" + name + "/" +
\* version + "/" + name + "-" + version + ".jar"
MavenUrl(base, c) == << base >> \o c.group \o << c.name, c.version, JarName(c) >>

\* C21: every fetch the script issues is for the URL built from the
\* entry's coordinates on https://repo1.maven.org/maven2, into the file
\* named name-version.jar, which is the last part of the URL; the six file
\* names are pairwise distinct.
C21_UrlsFollowCoordinates ==
    /\ \A r \in requests :
         /\ r.url = MavenUrl("https://repo1.maven.org/maven2",
                             Coordinates(r.entry))
         /\ r.file = JarName(Coordinates(r.entry))
         /\ r.file = r.url[Len(r.url)]
    /\ \A q, r \in requests : q.entry # r.entry => q.file # r.file

\* A run has fetched all six entries.
C21_Witness ==
    /\ pc = "exited"
    /\ Cardinality(requests) = TOTAL_JARS
    /\ \A k \in Entries : outcome[k] = "Downloaded"
    /\ exitCode = 0

\* ----------------------------------------------------------------- C24
\* C24: every entry reported Downloaded or AlreadyPresent has a regular
\* file at its path in every later state of the run, its end included.
C24_ReportedFilesStay ==
    \A k \in Entries :
        outcome[k] \in {"Downloaded", "AlreadyPresent"}
        => fs[k] \in {"partial", "full"}

\* A run that downloaded one entry and skipped another has ended on the
\* cleanup of a failed third.
C24_Witness ==
    /\ pc = "exited"
    /\ outcome[1] = "Downloaded"
    /\ outcome[2] = "AlreadyPresent"
    /\ outcome[3] = "Failed"
    /\ fs[1] = "full"

Converged == pc # "wget" /\ \A k \in Entries : fs[k] \in {"partial", "full"}

\* C25: convergence under re-invocation.  When the destination is usable
\* (a directory, or creatable), repeated invocation reaches a state from
\* which all six manifest files are present for ever; and from a state in
\* which they are all present no step starts a fetch.
C25_Convergence ==
    /\ (destKind = "dir" \/ (destKind = "absent" /\ parentWritable))
       => <>[]Converged
    /\ [][ Converged => (Converged' /\ nfetch' \in {nfetch,
                                       [k \in Entries |-> 0]}) ]_vars

\* A run has ended with all six files present, having fetched itself the
\* entry on which the run before it failed.
C25_Witness ==
    /\ Converged
    /\ pc = "exited"
    /\ exitCode = 0
    /\ \E k \in Entries : prev[k] = "Failed" /\ outcome[k] = "Downloaded"

\* ----------------------------------------------------------------- C22
\* C22: whenever SIGTERM or SIGINT is delivered to the main process of
\* the flink-dev container after the start script has launched Jupyter
\* Lab, the cleanup handler runs, the JobManager and the TaskManager are
\* killed, and the script exits with status 0.
C22_GracefulShutdown ==
    [][ (spc = "jupyter" /\ sigs' = sigs + 1)
        => /\ cleanupRan'
           /\ jm' # "running"
           /\ tm' # "running"
           /\ spc' = "exited"
           /\ sexit' = 0 ]_vars

\* ----------------------------------------------------------------- C23
\* C23: the JobManager is launched before the TaskManager, the
\* TaskManager before Jupyter Lab, and 'Flink cluster ready!' is printed
\* only in states where both the JobManager and the TaskManager are
\* running.
C23_StartOrder ==
    /\ [](tm # "not_started" => jm # "not_started")
    /\ [](spc = "jupyter" => tm # "not_started")
    /\ [][ (spc = "ready" /\ spc' = "trap")
            => (jm = "running" /\ tm = "running") ]_vars

\* The part of C23 the script keeps: the order of the three launches.
C23_LaunchOrder ==
    /\ tm # "not_started" => jm # "not_started"
    /\ spc = "jupyter" => tm # "not_started"

\* ----------------------------------------------------------------- C27
\* The mc service has initialised the bucket.
BucketReady == mcpc = "tail" /\ bucket /\ policy = "public"

\* C27: the entrypoint of mc repeats 'mc alias set' until it succeeds and
\* only then runs the bucket commands: it never issues a bucket command
\* before the alias has been set, it leaves the loop only by a successful
\* attempt, and once MinIO is reachable a started mc service reaches a
\* state in which bucket warehouse exists with public anonymous access.
C27_BucketInitialisation ==
    /\ [](cmds # <<>> => aliasSet)
    /\ [][ (mcpc = "alias" /\ mcpc' # "alias")
           => (minioUp /\ aliasSet' /\ mcpc' = "rm" /\ cmds' = <<>>) ]_vars
    /\ [][ (mcpc = "alias" /\ ~minioUp /\ mcStarts' = mcStarts)
           => (mcpc' = "alias" /\ cmds' = <<>>) ]_vars
    /\ (mcpc # "off" /\ minioUp) ~> BucketReady

\* The service waited for MinIO at least once, then ran the three bucket
\* commands and left the bucket public.
C27_Witness ==
    /\ BucketReady
    /\ waits > 0
    /\ cmds = << "rm", "mb", "anonymous" >>

\* ----------------------------------------------------------------- C28
\* C28: every start of mc removes all objects of bucket warehouse before
\* (re)creating it: the objects that were in the bucket when mc was
\* started, kept by the minio_data volume, are gone once the init
\* sequence has completed, and the rm step leaves no object behind, those
\* an engine wrote during the start included.
C28_StartWipesWarehouse ==
    /\ [](mcpc = "tail" => objects \cap objs0 = {})
    /\ [][ (mcpc = "rm" /\ mcpc' = "mb") => objects' = {} ]_vars

\* The init sequence has completed, the bucket held objects when mc was
\* started, and an object an engine wrote after that start is gone too.
C28_Witness ==
    /\ mcpc = "tail"
    /\ objs0 # {}
    /\ (written \ objs0) \ objects # {}

=============================================================================
